---- MODULE Spec2Model ----
(***************************************************************************)
(* A model of the instrumentation wrapper (langfuse_node_wrapper.py) and   *)
(* of the summarization graph built by build_graph.py, and of the         *)
(* sanitizing callback handler (langfuse_filtered_callback.py).            *)
(*                                                                         *)
(* Python values are tagged records: k names the runtime shape.            *)
(***************************************************************************)
EXTENDS Integers, Sequences, FiniteSets, TLC

\* ------------------------------------------------------------ Python values

PyNone == [k |-> "none"]
PyStr(s) == [k |-> "str", s |-> s]
PyInt(i) == [k |-> "int", v |-> i]
PyBool(b) == [k |-> "bool", v |-> b]
PyList(items) == [k |-> "list", items |-> items]
PyDict(d) == [k |-> "dict", d |-> d]
\* an instance of class t with the attributes a (a pydantic state, a record)
PyObj(t, a) == [k |-> "obj", t |-> t, attrs |-> a]
\* an instance of class t known by how its accessors behave: acc.base is
\* "list" for a subclass of list; acc.shape, acc.columns, acc.model_dump are
\* "absent", "ok" or "raises" (reading the attribute raises), with "broken"
\* for a shape that cannot be indexed and "fails" for a model_dump() that
\* raises when called; acc.len, acc.repr and acc.str are "ok" or "raises"
PyOpaque(t, acc) == [k |-> "opaque", t |-> t, acc |-> acc]

EmptyMap == [x \in {} |-> PyNone]

\* type(v).__name__
TypeName(v) ==
    CASE v.k = "none" -> "NoneType"
      [] v.k \in {"obj", "opaque"} -> v.t
      [] OTHER -> v.k

\* Python truthiness, as used by `not truncate`, `not paths` and `a or b`
Truthy(v) ==
    CASE v.k = "none" -> FALSE
      [] v.k = "bool" -> v.v
      [] v.k = "int" -> v.v # 0
      [] v.k = "str" -> v.s # ""
      [] v.k = "list" -> Len(v.items) > 0
      [] v.k = "dict" -> DOMAIN v.d # {}
      [] OTHER -> TRUE

\* d.get(key, default)
DictGet(d, key, default) == IF key \in DOMAIN d THEN d[key] ELSE default

\* ------------------------------------------------------------ strings

RECURSIVE RepeatStr(_, _)
RepeatStr(s, n) == IF n = 0 THEN "" ELSE s \o RepeatStr(s, n - 1)

LowerChar(c) ==
    CASE c = "P" -> "p" [] c = "R" -> "r" [] c = "O" -> "o" [] c = "M" -> "m"
      [] c = "T" -> "t" [] c = "D" -> "d" [] c = "E" -> "e" [] c = "C" -> "c"
      [] c = "K" -> "k" [] OTHER -> c

\* str.lower()
RECURSIVE Lower(_)
Lower(s) ==
    IF s = "" THEN ""
    ELSE LowerChar(SubSeq(s, 1, 1)) \o Lower(SubSeq(s, 2, Len(s)))

\* kw in s
Contains(s, kw) ==
    \E i \in 1..(Len(s) - Len(kw) + 1) : SubSeq(s, i, i + Len(kw) - 1) = kw

\* s.startswith(prefix)
StartsWith(s, prefix) ==
    Len(s) >= Len(prefix) /\ SubSeq(s, 1, Len(prefix)) = prefix

\* index of the first '.' of p, 0 when there is none
DotIndex(p) ==
    IF Contains(p, ".")
    THEN CHOOSE i \in 1..Len(p) :
            /\ SubSeq(p, i, i) = "."
            /\ \A j \in 1..(i - 1) : SubSeq(p, j, j) # "."
    ELSE 0

\* p.split('.', 1): <<top, rest>>
SplitTop(p) == SubSeq(p, 1, DotIndex(p) - 1)
SplitRest(p) == SubSeq(p, DotIndex(p) + 1, Len(p))

\* ------------------------------------------------------------ program constants

\* None means "no truncation": a preview limit is <<>> (None) or <<n>>
CREATE_PROMPT_NODE_PREVIEW_CHARS == << >>
DefaultPreviewChars == 120
LongTextPreviewChars == 200
OutputPreviewChars == 200

TruncationMarker == "... [truncated]"
RedactedPrompt == [type |-> "str", note |-> "redacted-prompt"]

\* ------------------------------------------------------------ _summarize_value

\* how a function ends: with a value or with an exception
FnReturn(v) == [kind |-> "return", val |-> v]
FnRaise(t) == [kind |-> "raise", exc |-> [type |-> t, msg |-> ""]]

\* variant of StrPreview: a text as long as the limit is cut as well
StrPreviewStrict(s, max_str_preview) ==
    IF max_str_preview = << >> THEN s
    ELSE IF Len(s) < max_str_preview[1] THEN s
    ELSE SubSeq(s, 1, max_str_preview[1]) \o TruncationMarker

\* the preview of the text s
StrPreview(s, max_str_preview) ==
    IF max_str_preview = << >> THEN s
    ELSE IF Len(s) <= max_str_preview[1] THEN s
    ELSE SubSeq(s, 1, max_str_preview[1]) \o TruncationMarker

\* the descriptor of a value with a shape attribute; each part that cannot
\* be read is None
ShapeDescriptor(v) ==
    [type |-> TypeName(v),
     n_rows |-> IF v.acc.shape = "ok" THEN PyInt(3) ELSE PyNone,
     n_cols |-> IF v.acc.shape = "ok" THEN PyInt(2) ELSE PyNone,
     columns_sample |-> IF v.acc.columns = "ok" THEN PyList(<<"c1", "c2">>) ELSE PyNone]

\* variant of DumpOrRepr: repr(v) is tried before model_dump()
ReprOrDump(v) ==
    IF v.k = "opaque" /\ v.acc.repr = "raises" THEN FnRaise("RuntimeError")
    ELSE FnReturn([type |-> TypeName(v), repr |-> "<" \o TypeName(v) \o ">"])

\* the last steps of the try block: model_dump(), then repr(v)
DumpOrRepr(v) ==
    IF v.k = "opaque" /\ v.acc.model_dump = "raises" THEN FnRaise("RuntimeError")
    ELSE IF v.k = "opaque" /\ v.acc.model_dump = "ok"
    THEN FnReturn([type |-> TypeName(v), keys_sample |-> {"field"}])
    ELSE IF v.k = "opaque" /\ v.acc.repr = "raises" THEN FnRaise("RuntimeError")
    ELSE FnReturn([type |-> TypeName(v), repr |-> "<" \o TypeName(v) \o ">"])

\* the try block of _summarize_value; the descriptor of None is None itself
SummarizeBody(v, max_str_preview) ==
    CASE v.k = "none" -> FnReturn(PyNone)
      [] v.k = "opaque" /\ v.acc.shape = "raises" -> FnRaise("RuntimeError")
      [] v.k = "opaque" /\ v.acc.shape \in {"ok", "broken"} -> FnReturn(ShapeDescriptor(v))
      [] v.k = "opaque" /\ v.acc.shape = "absent" /\ v.acc.base = "list" ->
            IF v.acc.len = "raises" THEN FnRaise("RuntimeError")
            ELSE FnReturn([type |-> TypeName(v), len |-> 0])
      [] v.k = "list" -> FnReturn([type |-> TypeName(v), len |-> Len(v.items)])
      [] v.k = "dict" -> FnReturn([type |-> "dict", keys_sample |-> DOMAIN v.d])
      [] v.k = "str" ->
            FnReturn([type |-> "str", len |-> Len(v.s),
                      preview |-> StrPreview(v.s, max_str_preview)])
      [] v.k \in {"int", "bool"} -> FnReturn([type |-> TypeName(v), value |-> v.v])
      [] OTHER -> DumpOrRepr(v)

\* variant of SummarizeHandler: the handler has no second try
SummarizeHandlerOneTry(v) ==
    IF v.k = "opaque" /\ v.acc.str = "raises" THEN FnRaise("RuntimeError")
    ELSE FnReturn([type |-> TypeName(v), repr |-> "<" \o TypeName(v) \o ">"])

\* the outer `except Exception`: str(v), and the type alone when that raises
SummarizeHandler(v) ==
    IF v.k = "opaque" /\ v.acc.str = "raises" THEN FnReturn([type |-> TypeName(v)])
    ELSE FnReturn([type |-> TypeName(v), repr |-> "<" \o TypeName(v) \o ">"])

\* how _summarize_value(v, max_str_preview) ends
summarize_outcome(v, max_str_preview) ==
    LET body == SummarizeBody(v, max_str_preview)
    IN IF body.kind = "raise" THEN SummarizeHandler(v) ELSE body

summarize_value(v, max_str_preview) == summarize_outcome(v, max_str_preview).val

\* ------------------------------------------------------------ _get_attr_from_obj

\* one segment: mapping-style for a dict, attribute-style otherwise
GetPart(cur, part) ==
    CASE cur.k = "dict" -> DictGet(cur.d, part, PyNone)
      [] cur.k = "obj" -> DictGet(cur.attrs, part, PyNone)
      [] OTHER -> PyNone

RECURSIVE get_attr_from_obj(_, _)
get_attr_from_obj(obj, path) ==
    IF obj.k = "none" THEN PyNone
    ELSE IF DotIndex(path) = 0 THEN GetPart(obj, path)
    ELSE get_attr_from_obj(GetPart(obj, SplitTop(path)), SplitRest(path))

\* ------------------------------------------------------------ _filter_snapshot

IsPromptPath(p) ==
    Contains(Lower(p), "prompt") \/ Contains(Lower(p), "prompt_deck")

IsLongTextPath(p) ==
    \/ Contains(Lower(p), "mer_markdown")
    \/ Contains(Lower(p), "markdown_output")
    \/ Contains(Lower(p), "llm_response")

\* the preview limit _filter_snapshot hands to _summarize_value for path p
PreviewLimit(p, node_name, truncate) ==
    LET byPath == IF IsLongTextPath(p) THEN <<LongTextPreviewChars>>
                  ELSE <<DefaultPreviewChars>>
        byNode == IF /\ node_name = "create_prompt_node"
                     /\ (Contains(Lower(p), "mer_markdown") \/ Contains(Lower(p), "prompt"))
                  THEN CREATE_PROMPT_NODE_PREVIEW_CHARS
                  ELSE byPath
    IN IF ~Truthy(truncate) THEN << >> ELSE byNode

\* the redaction test of one path
Redacts(p, node_name, truncate) ==
    IsPromptPath(p) /\ node_name # "create_prompt_node" /\ Truthy(truncate)

\* out[p] for one path
FilterEntry(source_obj, p, node_name, truncate) ==
    IF Redacts(p, node_name, truncate) THEN RedactedPrompt
    ELSE summarize_value(get_attr_from_obj(source_obj, p),
                         PreviewLimit(p, node_name, truncate))

Range(seq) == {seq[i] : i \in DOMAIN seq}

\* `for p in paths` raises TypeError when paths is truthy and not iterable
NotIterable(paths) == paths.k \notin {"list", "dict", "str"}

\* _filter_snapshot raises only when a truthy paths cannot be iterated
FilterRaises(paths) == Truthy(paths) /\ NotIterable(paths)

filter_snapshot(source_obj, paths, node_name, truncate) ==
    IF ~Truthy(paths) THEN EmptyMap
    ELSE [p \in Range(paths.items) |-> FilterEntry(source_obj, p, node_name, truncate)]

\* ------------------------------------------------------------ output snapshot

OutputLimit(truncate_output) ==
    IF ~Truthy(truncate_output) THEN << >> ELSE <<OutputPreviewChars>>

\* the value summarized for path p when the result is a dict
DictResultValue(result, state_obj, p) ==
    IF Contains(p, ".")
    THEN LET v == DictGet(result.d, SplitTop(p), PyNone)
         IN IF v.k = "none" THEN get_attr_from_obj(state_obj, p)
            ELSE get_attr_from_obj(v, SplitRest(p))
    ELSE IF p \in DOMAIN result.d THEN result.d[p]
         ELSE get_attr_from_obj(state_obj, p)

\* the value summarized for path p when the result is not a dict
OtherResultValue(result, state_obj, p) ==
    IF StartsWith(p, "result.")
    THEN get_attr_from_obj(result, SubSeq(p, Len("result.") + 1, Len(p)))
    ELSE LET v == get_attr_from_obj(result, p)
         IN IF Truthy(v) THEN v ELSE get_attr_from_obj(state_obj, p)

OutputEntry(result, state_obj, p, truncate_output) ==
    summarize_value(
        IF result.k = "dict" THEN DictResultValue(result, state_obj, p)
        ELSE OtherResultValue(result, state_obj, p),
        OutputLimit(truncate_output))

\* `for p in output_paths` raises TypeError when output_paths is not iterable
OutputRaises(output_paths) == NotIterable(output_paths)

output_snapshot(result, state_obj, output_paths, truncate_output) ==
    IF output_paths.k # "list" THEN EmptyMap
    ELSE [p \in Range(output_paths.items) |->
            OutputEntry(result, state_obj, p, truncate_output)]

\* ------------------------------------------------------------ wrap_node: policy

VARIABLES
    NODE_CONFIG,    \* the mapping loaded from langfuse_nodes.yaml, read-only
    calls,          \* per wrapped stage: the state of its current call
    loop,           \* the task running on the event loop, or "free"
    run,            \* the graph run: its status, superstep and history
    state,          \* the shared pipeline state (SummaryState)
    faults,         \* how many more failures the tracing backend may show
    fn,             \* the last call of a module-level function: op, arg, out
    inner           \* the calls the inner Langfuse callback handler received

vars == <<NODE_CONFIG, calls, loop, run, state, faults, fn, inner>>

\* variant of ResolveCfg: a node without an entry gets the empty entry
ResolveCfgNoDefault(config, node_name) ==
    LET cfg == DictGet(config, node_name, PyNone)
    IN IF cfg.k = "none" THEN PyDict(EmptyMap) ELSE cfg

\* NODE_CONFIG.get(node_name), then NODE_CONFIG.get('_default', {})
ResolveCfg(config, node_name) ==
    LET cfg == DictGet(config, node_name, PyNone)
    IN IF cfg.k = "none" THEN DictGet(config, "_default", PyDict(EmptyMap)) ELSE cfg

\* cfg.get(key, default) if isinstance(cfg, dict) else default
CfgGet(cfg, key, default) ==
    IF cfg.k = "dict" THEN DictGet(cfg.d, key, default) ELSE default

\* input_paths, output_paths, truncate_input, truncate_output of a wrapped node
Policy(config, node_name) ==
    LET cfg == ResolveCfg(config, node_name)
    IN [input_paths |-> CfgGet(cfg, "input", PyList(<< >>)),
        output_paths |-> CfgGet(cfg, "output", PyList(<< >>)),
        truncate_input |-> CfgGet(cfg, "truncate_input", PyBool(TRUE)),
        truncate_output |-> CfgGet(cfg, "truncate_output", PyBool(TRUE))]

\* ------------------------------------------------------------ wrap_node: a call

NoOutcome == [kind |-> "none"]
Returned(v) == [kind |-> "return", val |-> v]
Raised(e) == [kind |-> "raise", exc |-> e]
NoExc == [type |-> "none", msg |-> ""]
TypeError == [type |-> "TypeError", msg |-> "object is not iterable"]
TracingError == [type |-> "TracingError", msg |-> "tracing backend failed"]

\* state_obj = args[0] if len(args) > 0 else kwargs.get('state')
StateObj(a) ==
    IF Len(a.args) > 0 THEN a.args[1] ELSE DictGet(a.kwargs, "state", PyNone)

\* variant of PassedArgs: the stage is handed the state alone
PassedArgsStateOnly(c) == [args |-> <<StateObj(c.args)>>, kwargs |-> EmptyMap]

\* the arguments node_callable(*args, **kwargs) is invoked with
PassedArgs(c) == c.args

IdleCall(coro) ==
    [pc |-> "idle", coro |-> coro, args |-> [args |-> << >>, kwargs |-> EmptyMap],
     client |-> "unset", span |-> "none", events |-> << >>,
     stageLog |-> << >>, awaiting |-> FALSE, result |-> PyNone, exc |-> NoExc,
     traceInput |-> << >>, traceOutput |-> << >>, outcome |-> NoOutcome]

\* a task keeps the event loop until it awaits or ends (the code between two
\* awaits of a coroutine runs without interleaving): whether the call c
\* awaits or ends; a task of the graph run ends when its result is collected
Yields(c) ==
    (c.awaiting /\ c.coro) \/ (c.pc = "done" /\ run.status = "idle")

\* a step of the call of node n that the tracing backend lets succeed
Set(n, c) ==
    /\ calls' = [calls EXCEPT ![n] = c]
    /\ loop' = IF Yields(c) THEN "free" ELSE n
    /\ UNCHANGED faults

\* a step of the call of node n in which a call into the tracing backend fails
Fail(n, c) ==
    /\ faults > 0
    /\ faults' = faults - 1
    /\ calls' = [calls EXCEPT ![n] = c]
    /\ loop' = IF Yields(c) THEN "free" ELSE n

CanStep(n) == loop \in {"free", n}

Event(c, e) == Append(c.events, e)

\* variant of OuterExcept: the handler lets the exception reach the caller
OuterExceptReraises(c) ==
    [c EXCEPT !.pc = "done",
              !.outcome = Raised(IF c.exc = NoExc THEN TracingError ELSE c.exc)]

\* the outer `except Exception` of the wrapper: run the node as fallback
OuterExcept(c) == [c EXCEPT !.pc = "fallback", !.exc = NoExc]

\* variant of LeaveSpanWith: the span is ended on the normal path only, an
\* exception goes straight to the outer handler
LeaveSpanNoExit(c, e) == [c EXCEPT !.pc = "fallback", !.exc = NoExc]

\* leaving the `with` block with an exception e pending: __exit__ runs first
LeaveSpanWith(c, e) == [c EXCEPT !.pc = "close_span", !.exc = e]

\* only subclasses of Exception are caught by `except Exception`
IsException(e) == e.type # "CancelledError"

CancelledError == [type |-> "CancelledError", msg |-> ""]

\* ------------------------------------------------------------ wrapped / wrapped_sync

\* client = langfuse.get_client(), None when it raises
GetClient(n) ==
    LET c == calls[n] IN
    /\ c.pc = "get_client" /\ CanStep(n)
    /\ \/ Set(n, [c EXCEPT !.client = "ok", !.pc = "open_span",
                           !.events = Event(c, "client_ok")])
       \/ Fail(n, [c EXCEPT !.client = "none", !.pc = "direct",
                            !.events = Event(c, "client_none")])
       \/ Fail(n, [c EXCEPT !.client = "none", !.pc = "direct",
                            !.events = Event(c, "client_raised")])
    /\ UNCHANGED <<NODE_CONFIG, run, state, fn, inner>>

\* with client.start_as_current_span(name=node_name) as span
OpenSpan(n) ==
    LET c == calls[n] IN
    /\ c.pc = "open_span" /\ CanStep(n)
    /\ \/ Set(n, [c EXCEPT !.span = "open", !.events = Event(c, "span_open"),
                           !.pc = IF c.coro THEN "log_state" ELSE "input_snapshot"])
       \/ Fail(n, OuterExcept([c EXCEPT !.events = Event(c, "span_open_failed")]))
    /\ UNCHANGED <<NODE_CONFIG, run, state, fn, inner>>

\* logger.info(f"... {args} ... {state_obj} ..."), in the async wrapper only
LogState(n) ==
    LET c == calls[n] IN
    /\ c.pc = "log_state" /\ CanStep(n)
    /\ \/ Set(n, [c EXCEPT !.pc = "input_snapshot"])
       \/ Fail(n, LeaveSpanWith([c EXCEPT !.events = Event(c, "log_failed")],
                                TracingError))
    /\ UNCHANGED <<NODE_CONFIG, run, state, fn, inner>>

\* input_snapshot = _filter_snapshot(...); span.update_trace(input=input_snapshot)
InputSnapshot(n) ==
    LET c == calls[n]
        pol == Policy(NODE_CONFIG, n)
        snap == filter_snapshot(StateObj(c.args), pol.input_paths, n, pol.truncate_input)
    IN
    /\ c.pc = "input_snapshot" /\ CanStep(n)
    /\ \/ /\ FilterRaises(pol.input_paths)
          /\ Set(n, LeaveSpanWith([c EXCEPT !.events = Event(c, "input_raised")],
                                  TypeError))
       \/ /\ ~FilterRaises(pol.input_paths)
          /\ Set(n, [c EXCEPT !.traceInput = Append(c.traceInput, snap),
                              !.events = Event(c, "input_attached"),
                              !.pc = "wrapped"])
       \/ /\ ~FilterRaises(pol.input_paths)
          /\ Fail(n, [c EXCEPT !.events = Event(c, "input_failed"), !.pc = "wrapped"])
    /\ UNCHANGED <<NODE_CONFIG, run, state, fn, inner>>

\* span.update_trace(output={'error': str(e)}), then `raise`
ErrorMarker(n) ==
    LET c == calls[n] IN
    /\ c.pc = "error_marker" /\ CanStep(n)
    /\ \/ Set(n, LeaveSpanWith(
                [c EXCEPT !.traceOutput = Append(c.traceOutput, [error |-> c.exc.msg]),
                          !.events = Event(c, "error_attached")], c.exc))
       \/ Fail(n, LeaveSpanWith([c EXCEPT !.events = Event(c, "error_failed")], c.exc))
    /\ UNCHANGED <<NODE_CONFIG, run, state, fn, inner>>

\* the output snapshot of the result, and span.update_trace(output=output_snapshot)
OutputSnapshot(n) ==
    LET c == calls[n]
        pol == Policy(NODE_CONFIG, n)
        snap == output_snapshot(c.result, StateObj(c.args), pol.output_paths,
                                pol.truncate_output)
    IN
    /\ c.pc = "output_snapshot" /\ CanStep(n)
    /\ \/ /\ OutputRaises(pol.output_paths)
          /\ Set(n, LeaveSpanWith([c EXCEPT !.events = Event(c, "output_raised")],
                                  TypeError))
       \/ /\ ~OutputRaises(pol.output_paths)
          /\ Set(n, [c EXCEPT !.traceOutput = Append(c.traceOutput, snap),
                              !.events = Event(c, "output_attached"),
                              !.pc = "close_span"])
       \/ /\ ~OutputRaises(pol.output_paths)
          /\ Fail(n, [c EXCEPT !.events = Event(c, "output_failed"), !.pc = "close_span"])
    /\ UNCHANGED <<NODE_CONFIG, run, state, fn, inner>>

\* what follows the `with` block once __exit__ has returned
AfterExit(c) ==
    IF c.exc = NoExc THEN [c EXCEPT !.outcome = Returned(c.result), !.pc = "done"]
    ELSE IF IsException(c.exc) THEN OuterExcept(c)
    ELSE [c EXCEPT !.outcome = Raised(c.exc), !.pc = "done"]

\* the span's __exit__, run once on every way out of the `with` block
CloseSpan(n) ==
    LET c == calls[n] IN
    /\ c.pc = "close_span" /\ CanStep(n)
    /\ \/ Set(n, AfterExit([c EXCEPT !.span = "closed",
                                     !.events = Event(c, "span_close")]))
       \/ Fail(n, OuterExcept([c EXCEPT !.span = "close_failed",
                                        !.events = Event(c, "span_close_failed")]))
    /\ UNCHANGED <<NODE_CONFIG, run, state, fn, inner>>

\* ------------------------------------------------------------ build_graph: topology

NumChapters == 3
NumPmi == 2

ChapterIds == <<"A", "B", "C", "D", "E">>
PmiIds == <<"pmi1", "pmi2", "pmi3", "pmi4">>

\* summary_config.timeline_config.available_chapters
available_chapters == {ChapterIds[i] : i \in 1..NumChapters}
Pmis == {PmiIds[i] : i \in 1..NumPmi}

BranchNode(ch) == "chapter_" \o ch \o "_summary_node"

\* the keys of chapter_summary_nodes
chapter_summary_nodes == {BranchNode(ch) : ch \in available_chapters}

ChapterOf(n) == CHOOSE ch \in available_chapters : BranchNode(ch) = n

FanIn == "chapter_summary_completed_node"

GraphNodes ==
    {"create_folder_dao", "enumerate_chapters_to_run_node", FanIn,
     "chapter_summary_deep_merge_node", "pydantic_to_dict_node"}
        \cup chapter_summary_nodes

\* variant of Edges: the fan-in node is made part of the opening sequence
EdgesFanInInSequence ==
    {<<"START", "create_folder_dao">>,
     <<"create_folder_dao", "enumerate_chapters_to_run_node">>,
     <<"enumerate_chapters_to_run_node", FanIn>>,
     <<FanIn, "chapter_summary_deep_merge_node">>,
     <<"chapter_summary_deep_merge_node", "pydantic_to_dict_node">>}
        \cup {<<b, FanIn>> : b \in chapter_summary_nodes}

\* add_edge / add_sequence
Edges ==
    {<<"START", "create_folder_dao">>,
     <<"create_folder_dao", "enumerate_chapters_to_run_node">>,
     <<FanIn, "chapter_summary_deep_merge_node">>,
     <<"chapter_summary_deep_merge_node", "pydantic_to_dict_node">>}
        \cup {<<b, FanIn>> : b \in chapter_summary_nodes}

\* stages wrapped outside build_graph (nodes of the chapter subgraph)
StandaloneNodes == {"create_prompt_node", "summarize_node"}

Nodes == GraphNodes \cup StandaloneNodes

\* asyncio.iscoroutinefunction(node_callable) for the nodes of the graph
IsCoro(n) == n \in chapter_summary_nodes

\* ------------------------------------------------------------ pipeline state

InitialState ==
    PyObj("SummaryState",
          [folder_dao |-> PyNone,
           folder_num |-> PyInt(7),
           internal_pmi_facr_available |-> PyBool(TRUE),
           internal_dig_to_chapter_map |-> PyDict(EmptyMap),
           internal_list_of_chapter_timelines |-> PyList(<< >>),
           config |-> PyObj("SummaryConfig",
                        [timeline_config |-> PyDict([max_events |-> PyInt(5)])])])

\* the reducer of SummaryState: the appendable collection is appended to,
\* every other key is overwritten
ApplyUpdate(st, upd) ==
    [st EXCEPT !.attrs =
        [key \in DOMAIN st.attrs \cup DOMAIN upd.d |->
            IF key \notin DOMAIN upd.d THEN st.attrs[key]
            ELSE IF key = "internal_list_of_chapter_timelines"
            THEN PyList(st.attrs[key].items \o upd.d[key].items)
            ELSE upd.d[key]]]

\* chapter_summary_routing: the branch nodes of the chapters with dispatchable work
chapter_summary_routing(st) ==
    LET m == st.attrs.internal_dig_to_chapter_map.d
    IN {BranchNode(ch) : ch \in {c \in available_chapters :
                                    \E p \in DOMAIN m : m[p] = PyStr(c)}}

\* ------------------------------------------------------------ get_subgraph

PmiSeq == [i \in 1..NumPmi |-> PmiIds[i]]

\* variant of PmisOfChapter: the comprehension has no filter
PmisOfChapterUnfiltered(m, ch) ==
    LET Keep(p) == p \in DOMAIN m
    IN SelectSeq(PmiSeq, Keep)

\* [pmi for pmi, chap in internal_dig_to_chapter_map.items() if chap == ch]
PmisOfChapter(m, ch) ==
    LET Keep(p) == p \in DOMAIN m /\ m[p] = PyStr(ch)
    IN SelectSeq(PmiSeq, Keep)

\* variant of chapter_timeline_state: the branch state takes the identifiers
\* of every chapter
chapter_timeline_state_all_pmi(st, ch) ==
    PyObj("ChapterTimelineState",
          [chapter |-> PyStr(ch),
           chapter_timeline_config |-> PyObj("ChapterTimelineConfig",
                                             st.attrs.config.attrs.timeline_config.d),
           folder_dao |-> st.attrs.folder_dao,
           folder_num |-> st.attrs.folder_num,
           internal_pmi_facr_available |-> st.attrs.internal_pmi_facr_available,
           internal_all_pmi |->
                PyList(SelectSeq(PmiSeq,
                    LAMBDA p : p \in DOMAIN st.attrs.internal_dig_to_chapter_map.d))])

\* the ChapterTimelineState invoke_subgraph hands to the subgraph
chapter_timeline_state(st, ch) ==
    PyObj("ChapterTimelineState",
          [chapter |-> PyStr(ch),
           chapter_timeline_config |-> PyObj("ChapterTimelineConfig",
                                             st.attrs.config.attrs.timeline_config.d),
           folder_dao |-> st.attrs.folder_dao,
           folder_num |-> st.attrs.folder_num,
           internal_pmi_facr_available |-> st.attrs.internal_pmi_facr_available,
           internal_all_pmi |->
                PyList(PmisOfChapter(st.attrs.internal_dig_to_chapter_map.d, ch))])

\* variant of invoke_subgraph_result: ch is bound late, to the last chapter
\* of the loop of build_graph
invoke_subgraph_result_late(ch, s) ==
    PyDict([internal_list_of_chapter_timelines |->
                PyList(<<PyDict(ChapterIds[NumChapters] :> s)>>)])

\* variant of invoke_subgraph_result: every branch files its output under
\* one shared key
invoke_subgraph_result_shared_key(ch, s) ==
    PyDict([internal_list_of_chapter_timelines |-> PyList(<<PyDict("chapter" :> s)>>)])

\* return {'internal_list_of_chapter_timelines': [{ch: s}]}
invoke_subgraph_result(ch, s) ==
    PyDict([internal_list_of_chapter_timelines |-> PyList(<<PyDict(ch :> s)>>)])

SubgraphOutputs == {PyStr("timeline-v1"), PyStr("timeline-v2")}

\* ------------------------------------------------------------ stages

LongText == RepeatStr("0123456789", 25)

\* the state a stage outside the graph is called with
NodeState ==
    PyObj("PromptState",
          [prompt |-> PyStr(LongText),
           System_Prompt |-> PyStr("you are a summarizer"),
           mer_markdown |-> PyStr(LongText),
           summary |-> PyStr("old summary"),
           meta |-> PyDict([title |-> PyStr("state title")])])

\* how the caller passes the state: positionally, by name, with another keyword
CallArgChoices ==
    {[args |-> <<NodeState>>, kwargs |-> EmptyMap],
     [args |-> << >>, kwargs |-> [state |-> NodeState]],
     [args |-> <<NodeState>>, kwargs |-> [config |-> PyStr("run-config")]]}

GenericResults ==
    {PyDict([prompt |-> PyStr(LongText)]),
     PyDict([summary |-> PyStr("new summary")]),
     PyDict([summary |-> PyStr(LongText),
             meta |-> PyDict([author |-> PyStr("result author")])]),
     PyStr("plain text result")}

StageExceptions ==
    {[type |-> "ValueError", msg |-> "x"], [type |-> "RuntimeError", msg |-> "boom"]}

\* chapter_summary_deep_merge_node: one value per chapter, the last one wins
DeepMerge(items) ==
    LET keys == UNION {DOMAIN items[i].d : i \in DOMAIN items}
        LastOf(ch) == CHOOSE i \in DOMAIN items :
                        /\ ch \in DOMAIN items[i].d
                        /\ \A j \in DOMAIN items : ch \in DOMAIN items[j].d => j <= i
    IN [ch \in keys |-> items[LastOf(ch)].d[ch]]

\* the partial states a stage defined outside build_graph can return
CollaboratorResults(n, st) ==
    CASE n = "create_folder_dao" ->
            {PyDict([folder_dao |-> PyObj("FolderDAO", EmptyMap)])}
      [] n = "enumerate_chapters_to_run_node" ->
            {PyDict([internal_dig_to_chapter_map |-> PyDict(m)]) :
                m \in [Pmis -> {PyStr(c) : c \in available_chapters \cup {"unlisted"}}]}
      [] n = FanIn -> {PyDict(EmptyMap)}
      [] n = "chapter_summary_deep_merge_node" ->
            {PyDict([case_timeline |->
                PyDict(DeepMerge(st.attrs.internal_list_of_chapter_timelines.items))])}
      [] n = "pydantic_to_dict_node" -> {PyDict([summary |-> PyStr("final summary")])}
      [] OTHER -> GenericResults

\* the partial states stage n can return when called with the state st; for
\* a branch node: s = await subgraph.ainvoke(...), then the single-entry
\* update
StageResults(n, st) ==
    IF n \in chapter_summary_nodes
    THEN {invoke_subgraph_result(ChapterOf(n), s) : s \in SubgraphOutputs}
    ELSE CollaboratorResults(n, st)

\* what the stage passes on to its subgraph, for a branch node
SubgraphInput(n, st) ==
    IF n \in chapter_summary_nodes THEN chapter_timeline_state(st, ChapterOf(n))
    ELSE PyNone

Sites == {"direct", "wrapped", "fallback"}

\* node_callable(*args, **kwargs), up to its first suspension
InvokeStage(n) ==
    LET c == calls[n]
        a == PassedArgs(c)
    IN
    /\ c.pc \in Sites /\ ~c.awaiting /\ CanStep(n)
    /\ Set(n, [c EXCEPT !.awaiting = TRUE,
                        !.events = Event(c, "stage_call"),
                        !.stageLog = Append(c.stageLog,
                            [site |-> c.pc, args |-> a,
                             sub |-> SubgraphInput(n, StateObj(a)),
                             out |-> NoOutcome])])
    /\ UNCHANGED <<NODE_CONFIG, run, state, fn, inner>>

\* where the wrapper goes on when the stage ends with `out`
AfterStage(c, out) ==
    LET c1 == [c EXCEPT !.awaiting = FALSE, !.stageLog[Len(c.stageLog)].out = out]
    IN IF c.pc = "wrapped"
       THEN IF out.kind = "return"
            THEN [c1 EXCEPT !.result = out.val, !.pc = "output_snapshot"]
            ELSE IF IsException(out.exc)
            THEN [c1 EXCEPT !.exc = out.exc, !.pc = "error_marker"]
            ELSE LeaveSpanWith(c1, out.exc)
       ELSE [c1 EXCEPT !.outcome = out, !.pc = "done"]

StageReturns(n) ==
    LET c == calls[n] IN
    /\ c.awaiting /\ CanStep(n)
    /\ \E r \in StageResults(n, StateObj(PassedArgs(c))) : Set(n, AfterStage(c, Returned(r)))
    /\ UNCHANGED <<NODE_CONFIG, run, state, fn, inner>>

StageRaises(n) ==
    LET c == calls[n] IN
    /\ c.awaiting /\ CanStep(n)
    /\ \E e \in StageExceptions : Set(n, AfterStage(c, Raised(e)))
    /\ UNCHANGED <<NODE_CONFIG, run, state, fn, inner>>

\* one step of the wrapper of node n
Wrapper(n) ==
    \/ GetClient(n)
    \/ OpenSpan(n)
    \/ LogState(n)
    \/ InputSnapshot(n)
    \/ InvokeStage(n)
    \/ StageReturns(n)
    \/ StageRaises(n)
    \/ ErrorMarker(n)
    \/ OutputSnapshot(n)
    \/ CloseSpan(n)

\* a caller invokes the wrapped stage: wrapped(*args, **kwargs)
Call(n) ==
    /\ n \in StandaloneNodes
    /\ \A m \in Nodes : calls[m].pc = "idle"
    /\ \E a \in CallArgChoices, coro \in BOOLEAN :
            Set(n, [IdleCall(coro) EXCEPT !.pc = "get_client", !.args = a])
    /\ UNCHANGED <<NODE_CONFIG, run, state, fn, inner>>

\* ------------------------------------------------------------ node configuration

InputPaths == <<"prompt", "System_Prompt", "mer_markdown", "summary">>
OutputPaths == <<"prompt", "summary", "meta.title">>

CfgEntry(ti, to) ==
    PyDict([input |-> PyList(InputPaths), output |-> PyList(OutputPaths),
            truncate_input |-> PyBool(ti), truncate_output |-> PyBool(to)])

\* the contents langfuse_nodes.yaml may have
ConfigChoices ==
    {EmptyMap,
     [_default |-> PyDict([input |-> PyList(InputPaths), output |-> PyList(OutputPaths)])],
     [_default |-> PyDict([input |-> PyInt(1)])],
     [_default |-> PyDict([input |-> PyNone, output |-> PyNone])]}
        \cup {[create_prompt_node |-> CfgEntry(ti, to), summarize_node |-> CfgEntry(ti, to)] :
                ti \in BOOLEAN, to \in BOOLEAN}

\* ------------------------------------------------------------ the compiled graph

MaxCallFaults == 6
MaxRunFaults == 2

\* tasks: the nodes of the current superstep; results: what the finished ones
\* returned or raised; history: the supersteps so far; activated: the routing
\* decision; completed: the nodes whose task has returned; order: the nodes
\* in the order their tasks ended; reran: the branch nodes whose task invoked
\* its stage more than once, each invocation returning
IdleRun ==
    [status |-> "idle", tasks |-> {}, results |-> EmptyMap, history |-> << >>,
     activated |-> {}, completed |-> {}, exc |-> NoExc,
     order |-> << >>, reran |-> {}]

\* the nodes in the order their writes are applied at the end of a superstep
TaskOrder ==
    <<"create_folder_dao", "enumerate_chapters_to_run_node">>
        \o [i \in 1..NumChapters |-> BranchNode(ChapterIds[i])]
        \o <<FanIn, "chapter_summary_deep_merge_node", "pydantic_to_dict_node">>

RECURSIVE ApplyWrites(_, _, _)
ApplyWrites(st, order, results) ==
    IF order = << >> THEN st
    ELSE ApplyWrites(
            IF Head(order) \in DOMAIN results
            THEN ApplyUpdate(st, results[Head(order)].val) ELSE st,
            Tail(order), results)

\* variant of Routed: the conditional edge dispatches to every node of
\* path_map
RoutedAll(st) == chapter_summary_nodes

\* the branch nodes the conditional edge dispatches to: the routing decision,
\* limited to path_map
Routed(st) == chapter_summary_routing(st) \cap chapter_summary_nodes

\* the nodes triggered by the nodes of `tasks`: their edges, and the
\* conditional edge out of enumerate_chapters_to_run_node
Triggered(tasks, st) ==
    {e[2] : e \in {d \in Edges : d[1] \in tasks}}
        \cup (IF "enumerate_chapters_to_run_node" \in tasks THEN Routed(st) ELSE {})

\* graph.ainvoke(initial_state): START -> create_folder_dao
StartRun ==
    /\ run.status = "idle"
    /\ \A m \in Nodes : calls[m].pc = "idle"
    /\ run' = [run EXCEPT !.status = "running",
                          !.tasks = Triggered({"START"}, state),
                          !.history = <<Triggered({"START"}, state)>>]
    /\ UNCHANGED <<NODE_CONFIG, calls, loop, state, faults, fn, inner>>

\* a scheduled node starts: its wrapped stage is called with the shared state
StartTask(n) ==
    /\ run.status = "running" /\ n \in run.tasks /\ n \notin DOMAIN run.results
    /\ calls[n].pc = "idle" /\ loop = "free"
    /\ Set(n, [IdleCall(IsCoro(n)) EXCEPT
                    !.pc = "get_client",
                    !.args = [args |-> <<state>>, kwargs |-> EmptyMap]])
    /\ UNCHANGED <<NODE_CONFIG, run, state, fn, inner>>

\* the task of node n ended: the run takes its result; the first exception of
\* a task fails the run
Collect(n) ==
    LET c == calls[n]
        again == IF /\ n \in chapter_summary_nodes /\ Len(c.stageLog) > 1
                       /\ \A i \in DOMAIN c.stageLog : c.stageLog[i].out.kind = "return"
                    THEN {n} ELSE {}
    IN
    /\ run.status \in {"running", "failed", "cancelled"} /\ n \in run.tasks
    /\ c.pc = "done" /\ loop = n
    /\ \/ /\ c.outcome.kind = "return"
          /\ run' = [run EXCEPT !.results = (n :> c.outcome) @@ @,
                                !.completed = @ \cup {n},
                                !.order = Append(@, n),
                                !.reran = @ \cup again]
       \/ /\ c.outcome.kind = "raise"
          /\ run' = [run EXCEPT !.results = (n :> c.outcome) @@ @,
                                !.order = Append(@, n),
                                !.reran = @ \cup again,
                                !.status = IF @ = "cancelled" THEN @ ELSE "failed",
                                !.exc = IF run.status \in {"failed", "cancelled"} THEN @
                                        ELSE c.outcome.exc]
    /\ calls' = [calls EXCEPT ![n] = IdleCall(IsCoro(n))]
    /\ loop' = "free"
    /\ UNCHANGED <<NODE_CONFIG, state, faults, fn, inner>>

\* every node of the superstep has returned: merge their partial states and
\* schedule the nodes they trigger
EndSuperstep ==
    LET st == ApplyWrites(state, TaskOrder, run.results)
        next == Triggered(run.tasks, st)
    IN
    /\ run.status = "running" /\ loop = "free"
    /\ DOMAIN run.results = run.tasks
    /\ state' = st
    /\ run' = [run EXCEPT !.status = IF next = {} THEN "done" ELSE "running",
                          !.tasks = next,
                          !.results = EmptyMap,
                          !.history = IF next = {} THEN @ ELSE Append(@, next),
                          !.activated =
                                IF "enumerate_chapters_to_run_node" \in run.tasks
                                THEN Routed(st) ELSE @]
    /\ UNCHANGED <<NODE_CONFIG, calls, loop, faults, fn, inner>>

\* the caller cancels the run while a branch is suspended in its subgraph
CancelRun ==
    /\ run.status = "running" /\ loop = "free"
    /\ \E b \in chapter_summary_nodes : calls[b].awaiting /\ calls[b].coro
    /\ run' = [run EXCEPT !.status = "cancelled", !.exc = CancelledError]
    /\ UNCHANGED <<NODE_CONFIG, calls, loop, state, faults, fn, inner>>

\* the failed or cancelled run cancels a branch that is still suspended in
\* its stage
CancelTask(n) ==
    LET c == calls[n] IN
    /\ run.status \in {"failed", "cancelled"} /\ n \in run.tasks
    /\ c.awaiting /\ c.coro /\ CanStep(n)
    /\ Set(n, AfterStage(c, Raised(CancelledError)))
    /\ UNCHANGED <<NODE_CONFIG, run, state, fn, inner>>

\* ------------------------------------------------------------ specifications

\* no module-level function has been called
NoFn == [op |-> "none", arg |-> << >>, out |-> NoOutcome]

Init ==
    /\ NODE_CONFIG \in ConfigChoices
    /\ calls = [n \in Nodes |-> IdleCall(IsCoro(n))]
    /\ loop = "free"
    /\ run = IdleRun
    /\ state = InitialState
    /\ faults = MaxCallFaults
    /\ fn = NoFn
    /\ inner = << >>

\* one call of a wrapped stage
Next == \E n \in Nodes : Call(n) \/ Wrapper(n)

Spec == Init /\ [][Next]_vars

InitGraph ==
    /\ NODE_CONFIG \in {cfg \in ConfigChoices : DOMAIN cfg = {"_default"}}
    /\ calls = [n \in Nodes |-> IdleCall(IsCoro(n))]
    /\ loop = "free"
    /\ run = IdleRun
    /\ state = InitialState
    /\ faults = MaxRunFaults
    /\ fn = NoFn
    /\ inner = << >>

\* one run of the compiled graph
NextGraph ==
    \/ StartRun
    \/ EndSuperstep
    \/ CancelRun
    \/ \E n \in Nodes : StartTask(n) \/ Wrapper(n) \/ Collect(n) \/ CancelTask(n)

SpecGraph == InitGraph /\ [][NextGraph]_vars

\* ------------------------------------------------------------ module level: NODE_CONFIG

\* what a node entry of langfuse_nodes.yaml may be: a full or partial
\* mapping, a scalar, a list, null
EntryChoices ==
    {PyDict([input |-> PyList(InputPaths), output |-> PyList(OutputPaths),
             truncate_input |-> PyBool(FALSE), truncate_output |-> PyBool(FALSE)]),
     PyDict([input |-> PyList(<<"summary">>)]),
     PyDict([truncate_output |-> PyBool(FALSE)]),
     PyDict(EmptyMap),
     PyStr("all"),
     PyList(<<"prompt">>),
     PyNone}

ConfiguredNames == {"_default", "summarize_node"}

\* the top-level mappings the file may hold
MappingChoices ==
    UNION {[keys -> EntryChoices] : keys \in SUBSET ConfiguredNames}

\* the file at _CONFIG_PATH: absent, present and not readable, not parsable,
\* or parsed by yaml.safe_load to `top`
ConfigFiles ==
    {[file |-> "missing"], [file |-> "unreadable"], [file |-> "invalid_yaml"]}
        \cup {[file |-> "parsed", top |-> top] :
                top \in {PyNone, PyList(<< >>), PyList(<<"summarize_node">>),
                          PyStr("summarize_node"), PyInt(0), PyInt(3), PyBool(FALSE)}
                            \cup {PyDict(m) : m \in MappingChoices}}

\* variant of load_config: every exception of the load is handled
load_config_catch_all(f) ==
    IF f.file # "parsed" THEN FnReturn(EmptyMap)
    ELSE IF ~Truthy(f.top) \/ f.top.k # "dict" THEN FnReturn(EmptyMap)
    ELSE FnReturn(f.top.d)

\* the module-level load of NODE_CONFIG: only FileNotFoundError is handled
load_config(f) ==
    CASE f.file = "missing" -> FnReturn(EmptyMap)
      [] f.file = "unreadable" -> FnRaise("PermissionError")
      [] f.file = "invalid_yaml" -> FnRaise("YAMLError")
      [] OTHER -> IF ~Truthy(f.top) \/ f.top.k # "dict" THEN FnReturn(EmptyMap)
                  ELSE FnReturn(f.top.d)

\* the import of langfuse_node_wrapper: NODE_CONFIG is bound when the load
\* succeeds
LoadConfig ==
    /\ fn = NoFn
    /\ \E f \in ConfigFiles :
            /\ fn' = [op |-> "load_config", arg |-> <<f>>, out |-> load_config(f)]
            /\ NODE_CONFIG' = IF load_config(f).kind = "return"
                              THEN load_config(f).val ELSE NODE_CONFIG
    /\ UNCHANGED <<calls, loop, run, state, faults, inner>>

\* wrap_node(node_callable, node_name) up to the resolution of the policy
ResolvePolicy ==
    /\ fn.op = "load_config" /\ fn.out.kind = "return"
    /\ \E name \in {"summarize_node", "create_prompt_node"} :
            fn' = [op |-> "wrap_node", arg |-> <<name>>,
                   out |-> FnReturn(Policy(NODE_CONFIG, name))]
    /\ UNCHANGED <<NODE_CONFIG, calls, loop, run, state, faults, inner>>

\* ------------------------------------------------------------ module level: _summarize_value

MaxStrLen == 5
MaxPreview == 4

Alphabet == "abcdefghijklmnop"

AccessorChoices ==
    [base : {"object", "list"},
     shape : {"absent", "ok", "broken", "raises"},
     columns : {"absent", "ok", "raises"},
     len : {"ok", "raises"},
     model_dump : {"absent", "ok", "fails", "raises"},
     repr : {"ok", "raises"},
     str : {"ok", "raises"}]

\* the values _summarize_value is applied to
SummarizeInputs ==
    {PyStr(SubSeq(Alphabet, 1, n)) : n \in 0..MaxStrLen}
        \cup {PyNone, PyInt(0), PyInt(42), PyBool(TRUE), PyList(<< >>),
              PyList(<<PyInt(1), PyInt(2)>>), PyDict([a |-> PyInt(1)]),
              PyObj("SummaryState", [folder_num |-> PyInt(7)])}
        \cup {PyOpaque("Frame", acc) : acc \in AccessorChoices}

\* None (no truncation) or a number of characters
PreviewBounds == {<< >>} \cup {<<n>> : n \in 0..MaxPreview}

SummarizeValue ==
    /\ fn = NoFn
    /\ \E v \in SummarizeInputs, n \in PreviewBounds :
            fn' = [op |-> "_summarize_value", arg |-> <<v, n>>,
                   out |-> summarize_outcome(v, n)]
    /\ UNCHANGED <<NODE_CONFIG, calls, loop, run, state, faults, inner>>

\* ------------------------------------------------------------ module level: build_graph

\* the loop over available_chapters: node name -> chapter of its closure
RECURSIVE BuildBranchNodes(_)
BuildBranchNodes(chs) ==
    IF chs = << >> THEN [x \in {} |-> ""]
    ELSE LET ch == chs[Len(chs)]
         IN (BranchNode(ch) :> ch) @@ BuildBranchNodes(SubSeq(chs, 1, Len(chs) - 1))

\* variant of BranchEdges: each branch also leads to the merge node
BranchEdgesAlsoToMerge(names) ==
    {<<b, FanIn>> : b \in names}
        \cup {<<b, "chapter_summary_deep_merge_node">> : b \in names}

\* builder.add_edge(node_name, "chapter_summary_completed_node") per branch
BranchEdges(names) == {<<b, FanIn>> : b \in names}

\* the graph build_graph compiles for the chapter list chs
build_graph(chs) ==
    LET branches == BuildBranchNodes(chs)
    IN [branches |-> DOMAIN branches,
        nodes |-> {"create_folder_dao", "enumerate_chapters_to_run_node", FanIn,
                   "chapter_summary_deep_merge_node", "pydantic_to_dict_node"}
                    \cup DOMAIN branches,
        edges |-> {<<"START", "create_folder_dao">>,
                   <<"create_folder_dao", "enumerate_chapters_to_run_node">>,
                   <<FanIn, "chapter_summary_deep_merge_node">>,
                   <<"chapter_summary_deep_merge_node", "pydantic_to_dict_node">>}
                    \cup BranchEdges(DOMAIN branches),
        path_map |-> DOMAIN branches]

\* the chapter lists a configuration may supply, repetitions included
ChapterLists == UNION {[1..k -> available_chapters] : k \in 0..NumChapters}

BuildGraph ==
    /\ fn = NoFn
    /\ \E chs \in ChapterLists :
            fn' = [op |-> "build_graph", arg |-> <<chs>>,
                   out |-> FnReturn(build_graph(chs))]
    /\ UNCHANGED <<NODE_CONFIG, calls, loop, run, state, faults, inner>>

InitFn ==
    /\ NODE_CONFIG = EmptyMap
    /\ calls = [n \in Nodes |-> IdleCall(IsCoro(n))]
    /\ loop = "free"
    /\ run = IdleRun
    /\ state = InitialState
    /\ faults = 0
    /\ fn = NoFn
    /\ inner = << >>

\* one call of a module-level function
NextFn == LoadConfig \/ ResolvePolicy \/ SummarizeValue \/ BuildGraph

SpecFn == InitFn /\ [][NextFn]_vars

\* ------------------------------------------------------------ LangfuseFilteredCallback

PromptPreviewChars == 80
LlmOutputPreviewChars == 120
ToolOutputPreviewChars == 120
ChainPreviewChars == 200

\* LANGFUSE_ALLOW_FULL_LLM_OUTPUT_NODES, at its default
ALLOWED_FULL_OUTPUT_NODES == {"azure_llm_node", "azure_llm_overview_node"}

\* an object whose attribute reads raise (a property that fails)
PyLazy == [k |-> "lazy", t |-> "LazyMessage"]
\* langchain's Generation and LLMResult; llm_output carries the token usage
Generation(text) == [text |-> text]
LLMResult(generations, llm_output) ==
    [k |-> "LLMResult", generations |-> generations, llm_output |-> llm_output]

\* hasattr(v, name), for a value whose attribute reads do not raise
HasAttr(v, name) == v.k = "obj" /\ name \in DOMAIN v.attrs

\* str(v), for a text, a mapping of at most one text entry, or an object
StrOf(v) ==
    CASE v.k = "str" -> v.s
      [] v.k = "none" -> "None"
      [] v.k = "dict" ->
            IF DOMAIN v.d = {} THEN "{}"
            ELSE LET key == CHOOSE x \in DOMAIN v.d : TRUE
                 IN "{'" \o key \o "': '" \o v.d[key].s \o "'}"
      [] OTHER -> "<" \o TypeName(v) \o ">"

\* text if len(text) <= max_chars else text[:max_chars] + "... [truncated]"
Truncated(text, max_chars) ==
    IF Len(text) <= max_chars THEN text
    ELSE SubSeq(text, 1, max_chars) \o "... [truncated]"

\* _short_preview(s, max_chars); a content attribute holds a text or None
short_preview(s, max_chars) ==
    CASE s.k = "none" -> PyNone
      [] s.k = "lazy" -> PyStr("[unserializable]")
      [] HasAttr(s, "content") ->
            IF s.attrs.content.k = "none" THEN PyStr("[no-content]")
            ELSE PyStr(Truncated(s.attrs.content.s, max_chars))
      [] s.k = "str" -> PyStr(Truncated(s.s, max_chars))
      [] s.k = "opaque" /\ s.acc.model_dump = "raises" -> PyStr("[unserializable]")
      [] s.k = "opaque" /\ s.acc.model_dump = "ok" ->
            PyStr(Truncated("{'field': 1}", max_chars))
      [] s.k = "opaque" /\ s.acc.str = "raises" -> PyStr("[unserializable]")
      [] OTHER -> PyStr(Truncated(StrOf(s), max_chars))

\* the current OpenTelemetry span, as get_current_span gives it: the lookup
\* is unavailable, raises, or gives None or a span with a name and attributes
CurrentSpans ==
    {[kind |-> "unavailable"], [kind |-> "raises"], [kind |-> "none"]}
        \cup {[kind |-> "span", name |-> PyStr(n), attributes |-> EmptyMap] :
                n \in {"azure_llm_node", "chapter_summary_node", ""}}
        \cup {[kind |-> "span", name |-> PyNone,
               attributes |-> [x \in {"span.name"} |-> PyStr(n)]] :
                n \in {"azure_llm_overview_node", "merge_node"}}

\* _allowed_full_output_current_span()
allowed_full_output_current_span(span) ==
    IF span.kind # "span" THEN FALSE
    ELSE LET name == IF span.name.k # "none" THEN span.name
                     ELSE DictGet(span.attributes, "span.name", PyNone)
         IN Truthy(name) /\ name.s \in ALLOWED_FULL_OUTPUT_NODES

\* a handler so far: the calls the inner handler received and how it ends
NoCalls == [sent |-> << >>, out |-> FnReturn(PyNone)]
Raises(r) == r.out.kind = "raise"
\* the block raises before it calls the inner handler
RaisesBeforeCall(r, t) == [r EXCEPT !.out = FnRaise(t)]
\* `except Exception: ... return None`
ReturnNone(r) == [r EXCEPT !.out = FnReturn(PyNone)]

\* self._inner.<method>(payload): the inner handler raises on each of its
\* first `failing` calls of the event and returns None afterwards
InnerCall(r, method, form, payload, failing) ==
    LET raised == Len(r.sent) < failing
    IN [sent |-> Append(r.sent, [method |-> method, form |-> form,
                                 payload |-> payload, raised |-> raised]),
        out |-> IF raised THEN FnRaise("Exception") ELSE FnReturn(PyNone)]

\* positional call, then the keyword call, then None
TwoForms(method, payload, failing) ==
    LET first == InnerCall(NoCalls, method, "positional", payload, failing)
    IN IF Raises(first)
       THEN LET second == InnerCall(first, method, "keyword", payload, failing)
            IN IF Raises(second) THEN ReturnNone(second) ELSE second
       ELSE first

\* _short_preview(p, max_chars=80) or "[REDACTED PROMPT]"
SanitizedPrompt(p) ==
    LET q == short_preview(p, PromptPreviewChars)
    IN IF Truthy(q) THEN q ELSE PyStr("[REDACTED PROMPT]")

on_llm_start(prompts, failing) ==
    IF Truthy(prompts) /\ prompts.k # "list"
    THEN ReturnNone(RaisesBeforeCall(NoCalls, "TypeError"))
    ELSE LET items == IF Truthy(prompts) THEN prompts.items ELSE << >>
             sanitized_prompts ==
                PyList([i \in DOMAIN items |-> SanitizedPrompt(items[i])])
         IN TwoForms("on_llm_start", sanitized_prompts, failing)

on_llm_new_token(token, failing) ==
    LET first == InnerCall(NoCalls, "on_llm_new_token", "positional", token, failing)
    IN IF Raises(first) THEN ReturnNone(first) ELSE first

\* Generation(text=text) validates its text
BuildGeneration(r, text) ==
    IF text.k = "str" THEN r ELSE RaisesBeforeCall(r, "ValidationError")

\* LLMResult(generations=[[Generation(text=text)]])
MinimalResult(text) == LLMResult(<<<<Generation(text)>>>>, PyNone)

\* the text of the last generation of the response, None without one
LastGenerationText(response) ==
    LET gens == response.generations
    IN IF gens = << >> THEN PyNone
       ELSE LET last == gens[Len(gens)]
            IN IF last = << >> THEN PyNone
               ELSE IF Truthy(last[Len(last)].text) THEN last[Len(last)].text
               ELSE PyNone

\* on_llm_end, the response is an LLMResult
on_llm_end_result(response, allow_full, failing) ==
    LET gen_text == LastGenerationText(response)
        final_text == IF allow_full THEN gen_text
                      ELSE short_preview(gen_text, LlmOutputPreviewChars)
        built == BuildGeneration(NoCalls, final_text)
        first == IF Raises(built) THEN built
                 ELSE InnerCall(NoCalls, "on_llm_end", "positional",
                                MinimalResult(final_text), failing)
    IN IF Raises(first)
       THEN LET second == InnerCall(first, "on_llm_end", "positional",
                                    response, failing)
            IN IF Raises(second) THEN ReturnNone(second) ELSE second
       ELSE first

\* the text on_llm_end reads from a response that is no LLMResult
PreviewText(response) ==
    IF response.k = "dict"
    THEN LET raw == DictGet(response.d, "raw", PyNone)
             from_raw == IF raw.k = "dict" THEN DictGet(raw.d, "content", PyNone)
                         ELSE IF HasAttr(raw, "content") THEN raw.attrs.content
                         ELSE PyNone
         IN IF from_raw.k = "none" THEN DictGet(response.d, "content", PyNone)
            ELSE from_raw
    ELSE IF HasAttr(response, "content") THEN response.attrs.content
    ELSE short_preview(response, LlmOutputPreviewChars)

\* on_llm_end, the response is no LLMResult
on_llm_end_other(response, allow_full, failing) ==
    LET preview_text == PreviewText(response)
        full_text == IF allow_full /\ preview_text.k # "none" THEN preview_text
                     ELSE short_preview(preview_text, LlmOutputPreviewChars)
        built == BuildGeneration(NoCalls, full_text)
        first == IF Raises(built) THEN built
                 ELSE InnerCall(NoCalls, "on_llm_end", "positional",
                                MinimalResult(full_text), failing)
    IN IF Raises(first)
       THEN LET second == InnerCall(first, "on_llm_end", "positional",
                                    PyDict([content |-> full_text]), failing)
            IN IF Raises(second) THEN ReturnNone(second) ELSE second
       ELSE first

\* reading the response raises: hasattr on the response or on its raw entry
ReadRaises(response) ==
    \/ response.k = "lazy"
    \/ response.k = "dict" /\ DictGet(response.d, "raw", PyNone).k = "lazy"

on_llm_end(response, span, failing) ==
    LET allow_full == allowed_full_output_current_span(span)
    IN IF ReadRaises(response)
       THEN LET last == InnerCall(NoCalls, "on_llm_end", "positional",
                                  PyDict([content |-> PyStr("[REDACTED]")]), failing)
            IN IF Raises(last) THEN ReturnNone(last) ELSE last
       ELSE IF response.k = "LLMResult"
       THEN on_llm_end_result(response, allow_full, failing)
       ELSE on_llm_end_other(response, allow_full, failing)

on_tool_end(output, failing) ==
    LET payload == IF output.k = "none" THEN PyNone
                   ELSE short_preview(output, ToolOutputPreviewChars)
        first == InnerCall(NoCalls, "on_tool_end", "positional", payload, failing)
    IN IF Raises(first) THEN ReturnNone(first) ELSE first

\* variant of on_chain_start: the last call of the inner handler is unguarded
on_chain_start_unguarded(inputs, failing) ==
    LET sanitized_inputs == short_preview(inputs, ChainPreviewChars)
        first == InnerCall(NoCalls, "on_chain_start", "positional",
                           sanitized_inputs, failing)
        second == IF Raises(first)
                  THEN InnerCall(first, "on_chain_start", "keyword",
                                 sanitized_inputs, failing)
                  ELSE first
    IN IF Raises(second)
       THEN InnerCall(second, "on_chain_start", "positional",
                      PyDict([_error |-> PyStr("on_chain_start_failed")]), failing)
       ELSE second

on_chain_start(inputs, failing) ==
    LET sanitized_inputs == short_preview(inputs, ChainPreviewChars)
        first == InnerCall(NoCalls, "on_chain_start", "positional",
                           sanitized_inputs, failing)
        second == IF Raises(first)
                  THEN InnerCall(first, "on_chain_start", "keyword",
                                 sanitized_inputs, failing)
                  ELSE first
    IN IF Raises(second)
       THEN LET third == InnerCall(second, "on_chain_start", "positional",
                            PyDict([_error |-> PyStr("on_chain_start_failed")]),
                            failing)
            IN IF Raises(third) THEN ReturnNone(third) ELSE third
       ELSE second

on_chain_end(output, failing) ==
    LET out_sanitized == IF output.k = "none" THEN PyDict(EmptyMap)
                         ELSE short_preview(output, ChainPreviewChars)
    IN TwoForms("on_chain_end", out_sanitized, failing)

\* the most calls of one event on which the inner handler raises
MaxInnerFailures == 3
InnerFailures == 0..MaxInnerFailures

LongReply == RepeatStr("0123456789", 15)
ShortReply == "done"
TokenUsage == PyDict([total_tokens |-> PyInt(42)])
PlainObject ==
    [base |-> "object", shape |-> "absent", columns |-> "absent", len |-> "ok",
     model_dump |-> "absent", repr |-> "ok", str |-> "ok"]

\* texts and values handed to the handlers
Texts == {PyStr(LongText), PyStr(LongReply), PyStr(ShortReply), PyStr("")}
Values ==
    Texts \cup {PyNone, PyLazy, PyDict([text |-> PyStr(LongText)]),
                PyObj("AIMessage", [content |-> PyStr(LongReply)]),
                PyObj("AIMessage", [content |-> PyNone]),
                PyOpaque("Frame", PlainObject),
                PyOpaque("Frame", [PlainObject EXCEPT !.str = "raises"]),
                PyOpaque("Frame", [PlainObject EXCEPT !.model_dump = "ok"]),
                PyOpaque("Frame", [PlainObject EXCEPT !.model_dump = "raises"])}

PromptLists ==
    {PyNone, PyInt(7), PyList(<< >>), PyList(<<PyStr(LongReply)>>),
     PyList(<<PyStr(ShortReply), PyStr("")>>), PyList(<<PyNone, PyLazy>>)}

LlmResponses ==
    {LLMResult(<<<<Generation(t)>>>>, TokenUsage) : t \in Texts}
        \cup {LLMResult(<< >>, TokenUsage),
              LLMResult(<<<<Generation(PyStr(ShortReply))>>,
                          <<Generation(PyStr(ShortReply)),
                            Generation(PyStr(LongReply))>>>>, TokenUsage),
              PyDict([raw |-> PyDict([content |-> PyStr(LongReply)])]),
              PyDict([raw |-> PyObj("AIMessage", [content |-> PyStr(LongReply)])]),
              PyDict([raw |-> PyLazy]),
              PyDict([content |-> PyStr(LongReply)]),
              PyDict(EmptyMap)}
        \cup Values

\* one callback event each: the handler runs to its end

OnLlmStart ==
    \E prompts \in PromptLists, failing \in InnerFailures :
        /\ fn' = [op |-> "on_llm_start", arg |-> <<prompts, failing>>,
                  out |-> on_llm_start(prompts, failing).out]
        /\ inner' = on_llm_start(prompts, failing).sent
        /\ UNCHANGED <<NODE_CONFIG, calls, loop, run, state, faults>>

OnLlmNewToken ==
    \E token \in {PyStr("to"), PyStr("ken")}, failing \in InnerFailures :
        /\ fn' = [op |-> "on_llm_new_token", arg |-> <<token, failing>>,
                  out |-> on_llm_new_token(token, failing).out]
        /\ inner' = on_llm_new_token(token, failing).sent
        /\ UNCHANGED <<NODE_CONFIG, calls, loop, run, state, faults>>

OnLlmEnd ==
    \E response \in LlmResponses, span \in CurrentSpans, failing \in InnerFailures :
        /\ fn' = [op |-> "on_llm_end", arg |-> <<response, span, failing>>,
                  out |-> on_llm_end(response, span, failing).out]
        /\ inner' = on_llm_end(response, span, failing).sent
        /\ UNCHANGED <<NODE_CONFIG, calls, loop, run, state, faults>>

OnToolEnd ==
    \E output \in Values, failing \in InnerFailures :
        /\ fn' = [op |-> "on_tool_end", arg |-> <<output, failing>>,
                  out |-> on_tool_end(output, failing).out]
        /\ inner' = on_tool_end(output, failing).sent
        /\ UNCHANGED <<NODE_CONFIG, calls, loop, run, state, faults>>

OnChainStart ==
    \E inputs \in Values, failing \in InnerFailures :
        /\ fn' = [op |-> "on_chain_start", arg |-> <<inputs, failing>>,
                  out |-> on_chain_start(inputs, failing).out]
        /\ inner' = on_chain_start(inputs, failing).sent
        /\ UNCHANGED <<NODE_CONFIG, calls, loop, run, state, faults>>

OnChainEnd ==
    \E output \in Values, failing \in InnerFailures :
        /\ fn' = [op |-> "on_chain_end", arg |-> <<output, failing>>,
                  out |-> on_chain_end(output, failing).out]
        /\ inner' = on_chain_end(output, failing).sent
        /\ UNCHANGED <<NODE_CONFIG, calls, loop, run, state, faults>>

InitCallback ==
    /\ NODE_CONFIG = EmptyMap
    /\ calls = [n \in Nodes |-> IdleCall(IsCoro(n))]
    /\ loop = "free"
    /\ run = IdleRun
    /\ state = InitialState
    /\ faults = 0
    /\ fn = NoFn
    /\ inner = << >>

\* any sequence of callback events
NextCallback ==
    \/ OnLlmStart
    \/ OnLlmNewToken
    \/ OnLlmEnd
    \/ OnToolEnd
    \/ OnChainStart
    \/ OnChainEnd

SpecCallback == InitCallback /\ [][NextCallback]_vars

\* ------------------------------------------------------------ claims C1..C10

Done(n) == calls[n].pc = "done"
CountEv(ev, S) == Cardinality({i \in DOMAIN ev : ev[i] \in S})
AllReturned(c) == \A i \in DOMAIN c.stageLog : c.stageLog[i].out.kind = "return"

\* C1: with a tracing client available, when the stage invoked inside the
\* span raises E, the call of the wrapped stage ends by raising that same E,
\* never by returning or by raising something else, and the error marker
\* {'error': str(E)} is what was attached as the span's output (unless that
\* one update itself failed).
C1_StageFailurePropagates ==
    \A n \in Nodes :
        LET c == calls[n] IN
        (/\ Done(n) /\ c.client = "ok"
         /\ c.stageLog # << >>
         /\ c.stageLog[1].site = "wrapped"
         /\ c.stageLog[1].out.kind = "raise")
        => /\ c.outcome = c.stageLog[1].out
           /\ ("error_failed" \notin Range(c.events)
                => c.traceOutput = <<[error |-> c.stageLog[1].out.exc.msg]>>)

\* C2: every call of a wrapped stage invokes the underlying stage exactly
\* once, on every path through the wrapper: never a second time, and once by
\* the time the call has ended.
C2_StageInvokedOnce ==
    \A n \in Nodes :
        /\ Len(calls[n].stageLog) <= 1
        /\ Done(n) => Len(calls[n].stageLog) = 1

\* C3: when the stage does not raise, the call returns the stage's result and
\* raises nothing, whichever steps of the instrumentation fail.
C3_TracingFailureNeverSurfaces ==
    \A n \in Nodes :
        LET c == calls[n] IN
        (Done(n) /\ AllReturned(c))
        => /\ c.outcome.kind = "return"
           /\ c.outcome = c.stageLog[Len(c.stageLog)].out

\* C3 witness: a call that returned although attaching the input snapshot,
\* attaching the output snapshot and closing the span all failed.
C3_Witness ==
    \E n \in Nodes :
        /\ Done(n) /\ AllReturned(calls[n]) /\ calls[n].outcome.kind = "return"
        /\ {"input_failed", "output_failed", "span_close_failed"}
                \subseteq Range(calls[n].events)

\* C4: without a tracing client (get_client raised or returned None) the call
\* opens no span, invokes the stage once with the caller's positional and
\* keyword arguments, and ends exactly as the stage did.
C4_NoClientRunsStageUnmodified ==
    \A n \in Nodes :
        LET c == calls[n] IN
        c.client = "none"
        => /\ c.span = "none"
           /\ CountEv(c.events, {"span_open", "span_close", "span_close_failed"}) = 0
           /\ c.traceInput = << >> /\ c.traceOutput = << >>
           /\ Len(c.stageLog) <= 1
           /\ \A i \in DOMAIN c.stageLog : c.stageLog[i].args = c.args
           /\ Done(n) => (Len(c.stageLog) = 1 /\ c.outcome = c.stageLog[1].out)

\* C4 witness: a call without client, made with keyword arguments, whose
\* stage raised.
C4_Witness ==
    \E n \in Nodes :
        /\ Done(n) /\ calls[n].client = "none"
        /\ DOMAIN calls[n].args.kwargs # {}
        /\ calls[n].outcome.kind = "raise"

\* C5: the value a wrapped stage returns does not depend on the tracing side:
\* whatever instrumentation steps fail, a call whose stage returned r ends by
\* returning r, as the call does in which no instrumentation step fails.
C5_ResultIndependentOfTracing ==
    \A n \in Nodes :
        LET c == calls[n] IN
        (Done(n) /\ c.stageLog[1].out.kind = "return")
        => c.outcome = c.stageLog[1].out

\* C6: a span is opened at most once per call and its __exit__ runs at most
\* once and only after it was opened; no span is open once the call has
\* ended, nor while the stage runs as the wrapper's fallback.
C6_SpanClosedOnce ==
    \A n \in Nodes :
        LET c == calls[n]
            opens == CountEv(c.events, {"span_open"})
            exits == CountEv(c.events, {"span_close", "span_close_failed"})
        IN /\ exits <= opens /\ opens <= 1
           /\ (c.span = "open") <=> (opens = 1 /\ exits = 0)
           /\ (Done(n) \/ c.pc = "fallback") => c.span # "open"

\* C6 witness: a call whose stage failed inside the span, ended, span closed.
C6_Witness ==
    \E n \in Nodes :
        /\ Done(n) /\ calls[n].span = "closed"
        /\ "error_attached" \in Range(calls[n].events)
        /\ calls[n].outcome.kind = "raise"

\* C7: on every stage but create_prompt_node, with truncation enabled, the
\* value recorded for a path containing "prompt" is the redaction marker, in
\* the input snapshot and in the output snapshot alike.
C7_PromptPathsRedacted ==
    \A n \in Nodes \ {"create_prompt_node"} :
        LET c == calls[n]
            pol == Policy(NODE_CONFIG, n)
        IN /\ Truthy(pol.truncate_input)
                => \A i \in DOMAIN c.traceInput : \A p \in DOMAIN c.traceInput[i] :
                        IsPromptPath(p) => c.traceInput[i][p] = RedactedPrompt
           /\ Truthy(pol.truncate_output)
                => \A i \in DOMAIN c.traceOutput : \A p \in DOMAIN c.traceOutput[i] :
                        IsPromptPath(p) => c.traceOutput[i][p] = RedactedPrompt

\* the descriptor holds the whole text of the value v
HoldsFullText(desc, v) ==
    v.k = "str" /\ "preview" \in DOMAIN desc /\ desc.preview = v.s

\* C8: a snapshot holds the full text of a field whose path contains "prompt"
\* only on the stage create_prompt_node with truncation disabled.
C8_FullPromptOnlyWhitelistedUntruncated ==
    \A n \in Nodes :
        LET c == calls[n]
            pol == Policy(NODE_CONFIG, n)
            st == StateObj(c.args)
        IN /\ \A i \in DOMAIN c.traceInput : \A p \in DOMAIN c.traceInput[i] :
                (IsPromptPath(p)
                    /\ HoldsFullText(c.traceInput[i][p], get_attr_from_obj(st, p)))
                => (n = "create_prompt_node" /\ ~Truthy(pol.truncate_input))
           /\ \A i \in DOMAIN c.traceOutput : \A p \in DOMAIN c.traceOutput[i] :
                (IsPromptPath(p) /\ c.result.k = "dict"
                    /\ HoldsFullText(c.traceOutput[i][p],
                                     DictResultValue(c.result, st, p)))
                => (n = "create_prompt_node" /\ ~Truthy(pol.truncate_output))

SuperstepsWith(n) == {i \in DOMAIN run.history : n \in run.history[i]}

\* C9: the fan-in node is scheduled only once every branch the routing
\* decision activated has completed, and the nodes after it only once it has
\* completed; it never runs beside a branch, and it runs once per run.
C9_FanInAfterAllBranches ==
    /\ FanIn \in run.tasks
        => /\ run.activated \subseteq run.completed
           /\ run.tasks = {FanIn}
           /\ \A b \in chapter_summary_nodes : calls[b].pc = "idle"
    /\ calls[FanIn].pc # "idle" => FanIn \in run.tasks
    /\ Cardinality(SuperstepsWith(FanIn)) <= 1
    /\ \A n \in {"chapter_summary_deep_merge_node", "pydantic_to_dict_node"} :
            n \in run.tasks => FanIn \in run.completed

\* C9 witness: the fan-in node running after two activated branches.
C9_Witness ==
    /\ FanIn \in run.tasks /\ calls[FanIn].pc = "wrapped" /\ calls[FanIn].awaiting
    /\ Cardinality(run.activated) >= 2

ChapterTimelines(st) == st.attrs.internal_list_of_chapter_timelines.items

\* C10: when the fan-in node runs, internal_list_of_chapter_timelines holds
\* exactly one single-entry mapping {c: output} for each activated chapter c
\* and none for any other chapter; the fan-in node is called with that state.
C10_OneEntryPerActivatedChapter ==
    FanIn \in run.tasks
    => LET items == ChapterTimelines(state) IN
       /\ \A i \in DOMAIN items :
            /\ Cardinality(DOMAIN items[i].d) = 1
            /\ \A ch \in DOMAIN items[i].d : items[i].d[ch] \in SubgraphOutputs
       /\ \A ch \in available_chapters :
            Cardinality({i \in DOMAIN items : ch \in DOMAIN items[i].d})
                = IF BranchNode(ch) \in run.activated THEN 1 ELSE 0
       /\ calls[FanIn].pc # "idle" => StateObj(calls[FanIn].args) = state

\* C10 witness: the fan-in node running on a collection of two entries.
C10_Witness ==
    /\ FanIn \in run.tasks /\ calls[FanIn].pc = "wrapped" /\ calls[FanIn].awaiting
    /\ Len(ChapterTimelines(state)) = 2

\* ------------------------------------------------------------ claims C11..C20

\* the task of node n ends in this step and the run takes its outcome
Collected(n) == calls[n].pc = "done" /\ calls'[n].pc = "idle"

\* the first invocation of the stage by the call c raised the exception e
StageRaisedFirst(c) ==
    /\ c.stageLog # << >>
    /\ c.stageLog[1].out.kind = "raise"
    /\ IsException(c.stageLog[1].out.exc)

\* C11: when the stage of a node of the graph raises an exception, the run
\* fails with that exception as the node's outcome, and a failed run stays
\* failed with no further superstep: no node downstream of the failing node
\* is scheduled and the run does not end successfully.
C11_StageFailureAbortsRun ==
    [][/\ \A n \in GraphNodes :
            (Collected(n) /\ StageRaisedFirst(calls[n]))
                => /\ run'.status = "failed"
                   /\ run'.results[n] = Raised(calls[n].stageLog[1].out.exc)
       /\ run.status = "failed"
            => run'.status = "failed" /\ run'.tasks = run.tasks]_vars

\* the output of the subgraph inside the partial state upd a branch returned
SubgraphOutputOf(upd) ==
    LET e == upd.d.internal_list_of_chapter_timelines.items[1].d
    IN e[CHOOSE key \in DOMAIN e : TRUE]

\* the superstep of the branches ends in this step
BranchesMerged ==
    /\ run.status = "running" /\ run.tasks # {}
    /\ run.tasks \subseteq chapter_summary_nodes
    /\ run'.tasks = {FanIn}

\* C12: whatever the order in which the concurrent branches end, the merge
\* of their superstep leaves in internal_list_of_chapter_timelines exactly
\* the entries {chapter of the branch: output of its subgraph}, one per
\* branch, and the deep merge of the collection is the mapping from each
\* chapter to that output: both are functions of the outputs alone.
C12_MergeIndependentOfCompletionOrder ==
    [][BranchesMerged =>
        LET out == [b \in run.tasks |-> SubgraphOutputOf(run.results[b].val)]
            items == ChapterTimelines(state')
        IN /\ Range(items) = {PyDict(ChapterOf(b) :> out[b]) : b \in run.tasks}
           /\ Len(items) = Cardinality(run.tasks)
           /\ DeepMerge(items) =
                [ch \in {ChapterOf(b) : b \in run.tasks} |-> out[BranchNode(ch)]]]_vars

\* C12 witness: a run that ended after two branches completed in the order
\* opposite to the one their nodes were registered in, with both entries
\* merged.
C12_Witness ==
    /\ run.status = "done"
    /\ Len(ChapterTimelines(state)) = 2
    /\ \E i, j \in DOMAIN run.order :
            /\ i < j
            /\ run.order[i] = BranchNode(ChapterIds[2])
            /\ run.order[j] = BranchNode(ChapterIds[1])

\* chapter ch has dispatchable identifiers in the state st
HasWork(ch, st) ==
    LET m == st.attrs.internal_dig_to_chapter_map.d
    IN \E p \in DOMAIN m : m[p] = PyStr(ch)

\* the supersteps of the run in which a branch node was scheduled
BranchSupersteps ==
    {i \in DOMAIN run.history : run.history[i] \cap chapter_summary_nodes # {}}

\* C13: branch nodes are scheduled in at most one superstep of a run, the
\* one that follows enumerate_chapters_to_run_node; the nodes scheduled
\* there are exactly the registered branch nodes of the chapters with
\* dispatchable work, and the branch of a chapter without work never starts.
C13_RoutingActivatesChaptersWithWork ==
    /\ Cardinality(BranchSupersteps) <= 1
    /\ \A i \in BranchSupersteps :
            /\ i > 1
            /\ run.history[i - 1] = {"enumerate_chapters_to_run_node"}
            /\ run.history[i] =
                    {BranchNode(ch) : ch \in {c \in available_chapters : HasWork(c, state)}}
            /\ run.activated = run.history[i]
    /\ \A b \in chapter_summary_nodes :
            (calls[b].pc # "idle" \/ b \in run.completed \/ b \in DOMAIN run.results)
                => /\ HasWork(ChapterOf(b), state)
                   /\ \E i \in BranchSupersteps : b \in run.history[i]

\* C13 witness: of three registered chapters the third has no work; the run
\* ended with the branches of the first two completed and the third never
\* started.
C13_Witness ==
    /\ run.status = "done"
    /\ ~HasWork(ChapterIds[3], state)
    /\ run.activated = {BranchNode(ChapterIds[1]), BranchNode(ChapterIds[2])}
    /\ run.activated \subseteq run.completed
    /\ BranchNode(ChapterIds[3]) \notin run.completed

\* the entries of the collection items filed under chapter ch
EntriesOf(items, ch) == {i \in DOMAIN items : ch \in DOMAIN items[i].d}

C20_BranchesShareNoMutableState ==
    [][(run.tasks \cap chapter_summary_nodes # {}) =>
        /\ \/ state' = state
           \/ /\ BranchesMerged
              /\ \A key \in DOMAIN state.attrs :
                    key # "internal_list_of_chapter_timelines"
                        => state'.attrs[key] = state.attrs[key]
              /\ DOMAIN state'.attrs = DOMAIN state.attrs
              /\ ChapterTimelines(state') =
                    ChapterTimelines(state) \o
                        SelectSeq([i \in 1..NumChapters |->
                                        PyDict(ChapterIds[i] :>
                                            IF BranchNode(ChapterIds[i]) \in run.tasks
                                            THEN SubgraphOutputOf(
                                                    run.results[BranchNode(ChapterIds[i])].val)
                                            ELSE PyNone)],
                                  LAMBDA e : \E b \in run.tasks :
                                                    DOMAIN e.d = {ChapterOf(b)})
        /\ \A b \in run.tasks : \A i \in DOMAIN calls[b].stageLog :
                LET inv == calls[b].stageLog[i]
                    m == state.attrs.internal_dig_to_chapter_map.d
                IN /\ StateObj(inv.args) = state
                   /\ inv.sub.attrs.chapter = PyStr(ChapterOf(b))
                   /\ \A p \in Range(inv.sub.attrs.internal_all_pmi.items) :
                        m[p] = PyStr(ChapterOf(b))]_vars

\* C20 witness: two branches suspended in their subgraphs at the same time,
\* each with the branch state of its own chapter.
C20_Witness ==
    \E a, b \in chapter_summary_nodes :
        /\ a # b
        /\ calls[a].awaiting /\ calls[b].awaiting
        /\ calls[a].stageLog[Len(calls[a].stageLog)].sub
                # calls[b].stageLog[Len(calls[b].stageLog)].sub
        /\ StateObj(calls[a].args) = state /\ StateObj(calls[b].args) = state

\* C14: the graph build_graph compiles has exactly the branch nodes
\* chapter_<c>_summary_node of the chapters c of the configured list, one
\* per chapter; each has the edge to the fan-in node as its only outgoing
\* edge and is a target of the conditional edge; for the configured
\* chapters this is the topology every run is executed on.
C14_BranchTopologyFixedAtBuild ==
    fn.op = "build_graph"
    => LET chs == fn.arg[1]
           g == fn.out.val
       IN /\ fn.out.kind = "return"
          /\ g.branches = {BranchNode(c) : c \in Range(chs)}
          /\ Cardinality(g.branches) = Cardinality(Range(chs))
          /\ \A b \in g.branches : {e \in g.edges : e[1] = b} = {<<b, FanIn>>}
          /\ g.path_map = g.branches
          /\ Range(chs) = available_chapters
                => /\ g.branches = chapter_summary_nodes
                   /\ g.nodes = GraphNodes
                   /\ g.edges = Edges

\* C14 witness: a graph built for a list naming every configured chapter
\* once.
C14_Witness ==
    /\ fn.op = "build_graph"
    /\ Len(fn.arg[1]) = NumChapters
    /\ Cardinality(fn.out.val.branches) = NumChapters

\* C15: for a text v and a preview bound n the descriptor is of type str
\* with len the length of v; its preview is v itself when n is None or v has
\* at most n characters, and the first n characters of v followed by the
\* truncation marker when v is longer.
C15_TextPreviewTruncation ==
    (fn.op = "_summarize_value" /\ fn.arg[1].k = "str")
    => LET s == fn.arg[1].s
           n == fn.arg[2]
           d == fn.out.val
       IN /\ fn.out.kind = "return"
          /\ d.type = "str" /\ d.len = Len(s)
          /\ IF n = << >> \/ Len(s) <= n[1]
             THEN d.preview = s
             ELSE /\ Len(d.preview) = n[1] + Len(TruncationMarker)
                  /\ SubSeq(d.preview, 1, n[1]) = SubSeq(s, 1, n[1])
                  /\ SubSeq(d.preview, n[1] + 1, Len(d.preview)) = TruncationMarker

\* C15 witness: a text one character longer than the bound, cut.
C15_Witness ==
    /\ fn.op = "_summarize_value" /\ fn.arg[1].k = "str"
    /\ fn.arg[2] # << >>
    /\ Len(fn.arg[1].s) = fn.arg[2][1] + 1
    /\ fn.out.val.preview # fn.arg[1].s

\* C16: _summarize_value returns for every value, whatever its accessors
\* do: None for None, and otherwise a descriptor that names the type of the
\* value; it never raises.
C16_SummarizeIsTotal ==
    fn.op = "_summarize_value"
    => /\ fn.out.kind = "return"
       /\ IF fn.arg[1].k = "none" THEN fn.out.val = PyNone
          ELSE /\ "type" \in DOMAIN fn.out.val
               /\ fn.out.val.type = TypeName(fn.arg[1])

\* C16 witness: a value whose model_dump, repr and str all raise, described
\* by its type alone.
C16_Witness ==
    /\ fn.op = "_summarize_value" /\ fn.arg[1].k = "opaque"
    /\ fn.arg[1].acc.shape = "absent" /\ fn.arg[1].acc.base = "object"
    /\ fn.arg[1].acc.model_dump = "fails"
    /\ fn.arg[1].acc.repr = "raises" /\ fn.arg[1].acc.str = "raises"
    /\ fn.out = FnReturn([type |-> "Frame"])

PolicyDefaults ==
    [input_paths |-> PyList(<< >>), output_paths |-> PyList(<< >>),
     truncate_input |-> PyBool(TRUE), truncate_output |-> PyBool(TRUE)]

PolicyKey ==
    [input_paths |-> "input", output_paths |-> "output",
     truncate_input |-> "truncate_input", truncate_output |-> "truncate_output"]

\* the policy pol takes each key from the mapping entry, a missing key its default
TakenFrom(pol, entry) ==
    \A f \in DOMAIN PolicyKey :
        pol[f] = IF PolicyKey[f] \in DOMAIN entry.d THEN entry.d[PolicyKey[f]]
                 ELSE PolicyDefaults[f]

\* C17: for a stage name without an entry wrap_node resolves the policy of
\* the _default entry; without a _default entry, and when the entry resolved
\* is not a mapping, it resolves empty path lists and truncation on; a key
\* missing from an entry takes that default; the resolution returns.
C17_PolicyResolution ==
    fn.op = "wrap_node"
    => LET name == fn.arg[1]
           pol == fn.out.val
       IN /\ fn.out.kind = "return"
          /\ name \notin DOMAIN NODE_CONFIG =>
                IF "_default" \in DOMAIN NODE_CONFIG /\ NODE_CONFIG["_default"].k = "dict"
                THEN TakenFrom(pol, NODE_CONFIG["_default"])
                ELSE pol = PolicyDefaults
          /\ name \in DOMAIN NODE_CONFIG =>
                /\ NODE_CONFIG[name].k = "dict" => TakenFrom(pol, NODE_CONFIG[name])
                /\ NODE_CONFIG[name].k \notin {"dict", "none"} => pol = PolicyDefaults

\* C17 witness: a stage without an entry resolved against a _default entry
\* that sets the input paths only.
C17_Witness ==
    /\ fn.op = "wrap_node" /\ fn.arg[1] = "create_prompt_node"
    /\ DOMAIN NODE_CONFIG = {"_default"}
    /\ NODE_CONFIG["_default"] = PyDict([input |-> PyList(<<"summary">>)])
    /\ fn.out.val.input_paths = PyList(<<"summary">>)
    /\ fn.out.val.truncate_output = PyBool(TRUE)

\* C19: the load of the node configuration returns for every file, and a
\* missing file and a file whose top level is not a mapping give an empty
\* NODE_CONFIG.
C19_ConfigLoadNeverFails ==
    fn.op = "load_config"
    => /\ fn.out.kind = "return"
       /\ (fn.arg[1].file # "parsed" \/ fn.arg[1].top.k # "dict")
            => fn.out.val = EmptyMap /\ NODE_CONFIG = EmptyMap

\* ------------------------------------------------------------ claims C21..C29

\* the identifiers in the branch state built for chapter ch from the state st
BranchPmis(st, ch) == chapter_timeline_state(st, ch).attrs.internal_all_pmi.items

\* C21: the branch state built for a chapter c lists exactly the
\* identifiers the shared state maps to c, each once; an identifier is in
\* the branch state of at most one chapter, and of exactly one when it is
\* mapped to a configured chapter; every invocation of a branch hands its
\* subgraph that list.
C21_BranchStateHoldsOwnIdentifiers ==
    LET m == state.attrs.internal_dig_to_chapter_map.d IN
    /\ \A ch \in available_chapters :
            /\ Range(BranchPmis(state, ch)) = {p \in DOMAIN m : m[p] = PyStr(ch)}
            /\ Len(BranchPmis(state, ch)) = Cardinality(Range(BranchPmis(state, ch)))
    /\ \A p \in DOMAIN m :
            Cardinality({ch \in available_chapters : p \in Range(BranchPmis(state, ch))})
                = IF \E ch \in available_chapters : m[p] = PyStr(ch) THEN 1 ELSE 0
    /\ \A b \in chapter_summary_nodes : \A i \in DOMAIN calls[b].stageLog :
            calls[b].stageLog[i].sub.attrs.internal_all_pmi.items
                = BranchPmis(state, ChapterOf(b))

\* C21 witness: two branches in flight, each handed the one identifier of
\* its chapter.
C21_Witness ==
    \E a, b \in chapter_summary_nodes :
        /\ a # b
        /\ calls[a].awaiting /\ calls[b].awaiting
        /\ Len(calls[a].stageLog[1].sub.attrs.internal_all_pmi.items) = 1
        /\ Len(calls[b].stageLog[1].sub.attrs.internal_all_pmi.items) = 1
        /\ calls[a].stageLog[1].sub.attrs.internal_all_pmi.items
                # calls[b].stageLog[1].sub.attrs.internal_all_pmi.items

\* the output snapshot the call c attached last, when that is what it did last
OutputAttached(c) ==
    c.events # << >> /\ c.events[Len(c.events)] = "output_attached"

LastOutput(c) == c.traceOutput[Len(c.traceOutput)]

\* path p is present in the mapping result: its key, and for a dotted path
\* a.b the key b inside result[a]
PresentIn(result, p) ==
    IF Contains(p, ".")
    THEN /\ SplitTop(p) \in DOMAIN result.d
         /\ get_attr_from_obj(result.d[SplitTop(p)], SplitRest(p)) # PyNone
    ELSE p \in DOMAIN result.d

\* C22: when the result is a mapping, the output snapshot describes for
\* each output path the value found in the result when the path is present
\* there (for a.b: b inside result[a]), and the value found in the input
\* state when the path is absent from the result at either level.
C22_OutputPathFallsBackToState ==
    \A n \in Nodes :
        LET c == calls[n]
            pol == Policy(NODE_CONFIG, n)
        IN (OutputAttached(c) /\ c.result.k = "dict")
            => \A p \in DOMAIN LastOutput(c) :
                LastOutput(c)[p] =
                    summarize_value(
                        IF PresentIn(c.result, p)
                        THEN IF Contains(p, ".")
                             THEN get_attr_from_obj(c.result.d[SplitTop(p)], SplitRest(p))
                             ELSE c.result.d[p]
                        ELSE get_attr_from_obj(StateObj(c.args), p),
                        OutputLimit(pol.truncate_output))

\* C23: when the result is not a mapping, the output attached to the span
\* is the type name of the result and nothing else.
C23_NonMappingResultTypeOnly ==
    \A n \in Nodes :
        LET c == calls[n] IN
        (OutputAttached(c) /\ c.result.k # "dict")
            => /\ DOMAIN LastOutput(c) = {"result_type"}
               /\ LastOutput(c).result_type = TypeName(c.result)

\* the place of an event in the order of a traced call
EventRank(e) ==
    CASE e = "client_ok" -> 0
      [] e = "span_open" -> 1
      [] e = "input_attached" -> 2
      [] e = "stage_call" -> 3
      [] e \in {"output_attached", "error_attached"} -> 4
      [] e = "span_close" -> 5
      [] OTHER -> 6

\* C25: in a call in which no step of the instrumentation fails, the events
\* occur in the order span opened, input snapshot attached, stage invoked,
\* output snapshot or error marker attached, span closed, each at most once.
C25_EventsInOrderOnce ==
    \A n \in Nodes :
        LET ev == calls[n].events IN
        (\A i \in DOMAIN ev : EventRank(ev[i]) < 6)
            => \A i, j \in DOMAIN ev : i < j => EventRank(ev[i]) < EventRank(ev[j])

\* the limit the policy gives path p with truncation enabled on a stage
\* other than create_prompt_node
PolicyLimit(p) == IF IsLongTextPath(p) THEN LongTextPreviewChars ELSE DefaultPreviewChars

\* every text preview of the snapshot snap keeps to the policy's limit
PreviewsWithinPolicy(snap) ==
    \A p \in DOMAIN snap :
        "preview" \in DOMAIN snap[p]
            => Len(snap[p].preview) <= PolicyLimit(p) + Len(TruncationMarker)

\* C26: with truncation enabled on a stage other than create_prompt_node,
\* every text preview of an attached snapshot, input or output, holds at
\* most the limit of its path (200 for a long-text path, 120 otherwise)
\* and the marker.
C26_PreviewLimitPolicy ==
    \A n \in Nodes \ {"create_prompt_node"} :
        LET c == calls[n]
            pol == Policy(NODE_CONFIG, n)
        IN /\ Truthy(pol.truncate_input)
                => \A i \in DOMAIN c.traceInput : PreviewsWithinPolicy(c.traceInput[i])
           /\ Truthy(pol.truncate_output)
                => \A i \in DOMAIN c.traceOutput :
                        "error" \notin DOMAIN c.traceOutput[i]
                            => PreviewsWithinPolicy(c.traceOutput[i])

\* the shape the descriptor d describes
DescribedAs(d) ==
    CASE d = PyNone -> "null"
      [] "n_rows" \in DOMAIN d -> "tabular"
      [] "preview" \in DOMAIN d -> "text"
      [] "len" \in DOMAIN d -> "collection"
      [] "value" \in DOMAIN d -> "scalar"
      [] "keys_sample" \in DOMAIN d /\ d.type = "dict" -> "dict"
      [] "keys_sample" \in DOMAIN d -> "record"
      [] OTHER -> "opaque"

\* the first shape the value v matches, in the order null, tabular,
\* list/tuple/set, dict, str, bool/number, structured record, opaque
FirstShape(v) ==
    CASE v.k = "none" -> "null"
      [] v.k = "opaque" /\ v.acc.shape # "absent" -> "tabular"
      [] v.k = "list" \/ (v.k = "opaque" /\ v.acc.base = "list") -> "collection"
      [] v.k = "dict" -> "dict"
      [] v.k = "str" -> "text"
      [] v.k \in {"int", "bool"} -> "scalar"
      [] v.k = "opaque" /\ v.acc.model_dump = "ok" -> "record"
      [] OTHER -> "opaque"

\* reading the attributes and the length of v raises nothing
ReadsCleanly(v) ==
    v.k = "opaque"
        => /\ v.acc.shape # "raises"
           /\ (v.acc.shape = "absent" /\ v.acc.base = "list") => v.acc.len = "ok"
           /\ (v.acc.shape = "absent" /\ v.acc.base = "object") => v.acc.model_dump # "raises"

CancelledAt(c) ==
    {i \in DOMAIN c.stageLog : c.stageLog[i].out = Raised(CancelledError)}

\* C27: once the run is cancelled no further superstep is scheduled, so
\* neither the fan-in node nor a suffix node runs; a branch whose stage was
\* cancelled invokes its stage no more, and its call ends by raising the
\* cancellation with no span left open.
C27_CancellationPropagates ==
    /\ run.status = "cancelled" => run.tasks \subseteq chapter_summary_nodes
    /\ \A b \in chapter_summary_nodes :
            LET c == calls[b] IN
            CancelledAt(c) # {}
                => /\ CancelledAt(c) = {Len(c.stageLog)}
                   /\ c.pc = "done" => /\ c.outcome = Raised(CancelledError)
                                       /\ c.span # "open"

\* a text the sanitization may forward: None, or at most 120 characters,
\* followed by the truncation marker when something was cut
WithinOutputLimit(text) ==
    \/ text.k = "none"
    \/ /\ text.k = "str"
       /\ \/ Len(text.s) <= LlmOutputPreviewChars
          \/ /\ Len(text.s) = LlmOutputPreviewChars + Len(TruncationMarker)
             /\ SubSeq(text.s, LlmOutputPreviewChars + 1, Len(text.s)) = TruncationMarker

\* a minimal sanitized result: one generation, or one content entry, no more
MinimalPayload(p) ==
    \/ /\ p.k = "LLMResult"
       /\ p.llm_output.k = "none"
       /\ Len(p.generations) = 1
       /\ Len(p.generations[1]) = 1
       /\ WithinOutputLimit(p.generations[1][1].text)
    \/ /\ p.k = "dict"
       /\ DOMAIN p.d = {"content"}
       /\ WithinOutputLimit(p.d.content)

\* C28: after an on_llm_end event received while the current span is not in
\* the allow-list, every payload the inner handler received is a minimal
\* sanitized result whose text is at most 120 characters of the response
\* followed by the truncation marker, on every path of the handler.
C28_OnlySanitizedForwarded ==
    (fn.op = "on_llm_end" /\ ~allowed_full_output_current_span(fn.arg[2]))
        => \A i \in DOMAIN inner : MinimalPayload(inner[i].payload)

HandlerNames ==
    {"on_llm_start", "on_llm_new_token", "on_llm_end", "on_tool_end",
     "on_chain_start", "on_chain_end"}

\* C29: every event handler returns normally, whatever the event and however
\* often the inner handler raises, including on every call.
C29_HandlersReturnNormally ==
    fn.op \in HandlerNames => fn.out.kind = "return"

\* on_chain_start called the inner handler three times and each call raised
C29_Witness ==
    /\ fn.op = "on_chain_start"
    /\ Len(inner) = 3
    /\ \A i \in DOMAIN inner : inner[i].raised

====
